---- MODULE Spec2Model ----
(***************************************************************************)
(* State-machine model of the annotation pipeline of annotate.py:          *)
(* main() = parse_args, read_json_file x2, map_by_timestamp x2, validate,  *)
(* trim, annotate (with geocode_local / geocode_osm), write_json_file.     *)
(* One pipeline run is a sequence of steps guarded by pc; runs follow one  *)
(* another on the same annotated file.  A second specification,           *)
(* SpecSummarize, models summarize() of visualize.py scanning a timeline.  *)
(***************************************************************************)
EXTENDS Integers, Sequences, FiniteSets, TLC

\* ------------------------------------------------------------------ bounds
MaxTs == 2          \* number of distinct instants the raw exports speak of
MaxLimit == 1       \* largest value of --limit tried
MaxDay == 3         \* number of days the timeline records start on
MaxPoints == 3      \* largest number of timeline points summarize() scans

\* ------------------------------------------------------- values and inputs
None == "None"      \* Python's None, also "key absent" for 'geocoder'

Instants == 1..MaxTs

\* A timestamp string is <<instant, spelling>>: spelling 0 is "....000Z",
\* spelling 1 is "...Z" (the same instant written differently, as
\* convert-annotated.py writes it).
isoparse(s) == s[1]

\* The versions in which a raw export may carry the entry of one instant:
\* 0 is the base entry, 1 and 2 differ from it in exactly one of the fields
\* validate() compares: for an odd instant the accuracy (1) or the spelling
\* of the timestamp (2), for an even one the latitude (1) or the longitude (2).
Versions == 0..2

LatOf(t) == 400 + t          \* odd instants lie in New York, even in New Jersey
LatAbroad == 450             \* a latitude outside the US
LonBase == 0 - 740
LonOdd == 0 - 1000           \* a longitude whose US region is in no table

RawEntry(t, v) ==
  [timestamp   |-> <<t, IF t % 2 = 1 /\ v = 2 THEN 1 ELSE 0>>,
   latitudeE7  |-> IF t % 2 = 0 /\ v = 1 THEN LatAbroad ELSE LatOf(t),
   longitudeE7 |-> IF t % 2 = 0 /\ v = 2 THEN LonOdd ELSE LonBase,
   accuracy    |-> IF t % 2 = 1 /\ v = 1 THEN 60 ELSE 50]

RECURSIVE Ascending(_)
\* the elements of a set of integers in increasing order
Ascending(S) ==
  IF S = {} THEN <<>>
  ELSE LET m == CHOOSE x \in S : \A y \in S : x <= y
       IN <<m>> \o Ascending(S \ {m})

\* The raw exports tried: the entries of any set of instants, in time order
\* as the collector writes them, all in base version but at most one.
RawExports ==
  UNION {{[i \in 1..Len(ts) |-> RawEntry(ts[i], IF i = c THEN v ELSE 0)] :
            c \in 0..Len(ts), v \in Versions} :
         ts \in {Ascending(S) : S \in SUBSET Instants}}

Geocoders == {"local", "osm"}

\* The values of --limit tried (type=int): a negative one, MaxLimit, and 0,
\* which also stands for an absent --limit: both are falsy at line 181.
Limits == {0 - 1, 0, MaxLimit}

ArgSets ==
  [geocoder : Geocoders \cup {None},
   email : {None, "me"},
   limit : Limits,
   delete_changed : BOOLEAN,
   delete_missing : BOOLEAN]

\* --------------------------------------------- Python dict (insertion order)
\* A dict is a sequence of <<key, value>> pairs without repeated keys.
Keys(d) == [i \in 1..Len(d) |-> d[i][1]]
Values(d) == [i \in 1..Len(d) |-> d[i][2]]
Has(d, k) == \E i \in 1..Len(d) : d[i][1] = k
Get(d, k) == d[CHOOSE i \in 1..Len(d) : d[i][1] = k][2]
Put(d, k, x) ==
  IF Has(d, k) THEN [i \in 1..Len(d) |-> IF d[i][1] = k THEN <<k, x>> ELSE d[i]]
  ELSE Append(d, <<k, x>>)
Del(d, k) == SelectSeq(d, LAMBDA p : p[1] # k)

Range(s) == {s[i] : i \in 1..Len(s)}

\* del lst[i] with a 0-based Python index i >= 0; IndexError past the end
DelAt(lst, i) ==
  IF i + 1 > Len(lst) THEN [raised |-> TRUE, lst |-> lst]
  ELSE [raised |-> FALSE,
        lst |-> [j \in 1..(Len(lst) - 1) |-> IF j < i + 1 THEN lst[j] ELSE lst[j + 1]]]

RECURSIVE InsertDesc(_, _)
InsertDesc(x, s) ==
  IF s = <<>> THEN <<x>>
  ELSE IF x >= Head(s) THEN <<x>> \o s
  ELSE <<Head(s)>> \o InsertDesc(x, Tail(s))

RECURSIVE SortedReverse(_)
\* sorted(indices, reverse=True)
SortedReverse(s) ==
  IF s = <<>> THEN <<>> ELSE InsertDesc(Head(s), SortedReverse(Tail(s)))

Take(s, n) == SubSeq(s, 1, IF n < Len(s) THEN n ELSE Len(s))

\* ------------------------------------------------------------------- state
VARIABLES
  file,                  \* the annotated file on disk: [exists, geocoder,
                         \* locations] (geocoder None when the key is absent)
  rawfile,               \* the raw export on disk: [exists, locations]
  args,                  \* the parsed command line of this run
  pc,                    \* position of the run inside main()
  annotated,             \* main(): the loaded annotated data
  ts_to_raw,             \* main(): dict timestamp -> raw entry
  ts_to_annotated,       \* main(): dict timestamp -> annotated entry
  ts_to_annotated_index, \* main(): dict timestamp -> index in locations
  coords,                \* annotate(): coordinates handed to geocode()
  states,                \* the list geocode() builds and returns
  sent,                  \* geocode_osm(): number of requests dispatched
  waited,                \* geocode_osm(): time.sleep(1) has returned since the
                         \* last request was dispatched
  out,                   \* what the run printed
  file0,                 \* the annotated file as it was when the run started
  prev,                  \* history: how the run before this one ended
  spc,                   \* position inside summarize() of visualize.py
  scanned,               \* summarize(): the timeline points scanned so far
  summary,               \* summarize(): dict day -> dict state -> count
  last_day               \* summarize(): the local of that name

pipevars == <<file, rawfile, args, pc, annotated, ts_to_raw, ts_to_annotated,
              ts_to_annotated_index, coords, states, sent, waited, out, file0,
              prev>>
sumvars == <<spc, scanned, summary, last_day>>
vars == <<pipevars, sumvars>>

NoDay == 0 - 1      \* last_day = None

\* prev.wrote: this run reads the raw export that the run right before it
\* read, and that run reached write_json_file; prev.left are the timestamps
\* that run left un-annotated, in their order.
NoPrev == [wrote |-> FALSE, left |-> <<>>]

NoArgs == [geocoder |-> None, email |-> None, limit |-> 0,
           delete_changed |-> FALSE, delete_missing |-> FALSE]

\* The printed lines of a run: the timestamps listed under each ERROR / INFO
\* heading of validate() (empty: heading not printed), the counts of the two
\* INFO lines of annotate() (0: not printed), and the last ERROR line.
NoOut == [err_missing |-> <<>>, err_changed |-> <<>>,
          info_missing |-> <<>>, info_changed |-> <<>>,
          annotating |-> 0, remaining |-> 0, error |-> None]

EmptyStore == [geocoder |-> None, locations |-> <<>>]
NoFile == [exists |-> FALSE, geocoder |-> None, locations |-> <<>>]
EmptyFile == [exists |-> TRUE, geocoder |-> None, locations |-> <<>>]
NoRawFile == [exists |-> FALSE, locations |-> <<>>]

Init ==
  /\ file \in {NoFile, EmptyFile}
  /\ rawfile = NoRawFile
  /\ args = NoArgs
  /\ pc = "idle"
  /\ annotated = EmptyStore
  /\ ts_to_raw = <<>>
  /\ ts_to_annotated = <<>>
  /\ ts_to_annotated_index = <<>>
  /\ coords = <<>>
  /\ states = <<>>
  /\ sent = 0
  /\ waited = FALSE
  /\ out = NoOut
  /\ file0 = file
  /\ prev = NoPrev
  /\ spc = "off"
  /\ scanned = <<>>
  /\ summary = <<>>
  /\ last_day = NoDay

\* the run has ended: util.write_json_file returned ("done"), sys.exit(1)
\* ("exit"), or an exception nothing catches ("crash")
Stopped == pc \in {"done", "exit", "crash"}

\* ------------------------------------------------------------- parse_args
\* A run starts: the command line is parsed and the raw export of this run
\* is whatever the collector left on disk.
parse_args ==
  /\ pc = "idle"
  /\ args' \in ArgSets
  /\ rawfile' \in {NoRawFile} \cup {[exists |-> TRUE, locations |-> r] : r \in RawExports}
  /\ pc' = "read"
  /\ UNCHANGED <<file, annotated, ts_to_raw, ts_to_annotated,
                 ts_to_annotated_index, coords, states, sent, waited, out, file0, prev>>
  /\ UNCHANGED sumvars

\* --------------------------------------------------------- read_json_file
\* util.read_json_file(filename) as main() calls it, default=None: the
\* FileNotFoundError branch prints and falls out of the function, which then
\* returns None.
read_json_file(f) ==
  IF f.exists THEN [none |-> FALSE, data |-> f] ELSE [none |-> TRUE, data |-> f]

\* -------------------------------------------------------- map_by_timestamp
RECURSIVE map_locations(_, _)
map_locations(locations, d) ==
  IF locations = <<>> THEN d
  ELSE map_locations(Tail(locations),
                     Put(d, isoparse(Head(locations).timestamp), Head(locations)))

RECURSIVE map_index(_, _, _)
\* the second dictionary of map_by_timestamp, i the index of the head
map_index(locations, i, d) ==
  IF locations = <<>> THEN d
  ELSE map_index(Tail(locations), i + 1,
                 Put(d, isoparse(Head(locations).timestamp), i))

\* variant of map_by_timestamp: the indices are counted from 1
map_by_timestamp_one(locations) ==
  <<map_locations(locations, <<>>), map_index(locations, 1, <<>>)>>

map_by_timestamp(locations) ==
  <<map_locations(locations, <<>>), map_index(locations, 0, <<>>)>>

\* main() lines 14-22: read both files and index them by timestamp.
\* Subscripting None raises TypeError, which nothing catches.
main_read ==
  /\ pc = "read"
  /\ LET raw == read_json_file(rawfile)
         ann == read_json_file(file)
     IN IF raw.none \/ ann.none
        THEN /\ pc' = "crash"
             /\ out' = [out EXCEPT !.error = "does not exist"]
             /\ UNCHANGED <<annotated, ts_to_raw, ts_to_annotated,
                            ts_to_annotated_index>>
        ELSE /\ pc' = "mapped"
             /\ annotated' = [geocoder |-> ann.data.geocoder,
                               locations |-> ann.data.locations]
             /\ ts_to_raw' = map_by_timestamp(raw.data.locations)[1]
             /\ ts_to_annotated' = map_by_timestamp(ann.data.locations)[1]
             /\ ts_to_annotated_index' = map_by_timestamp(ann.data.locations)[2]
             /\ out' = out
  /\ UNCHANGED <<file, rawfile, args, coords, states, sent, waited, file0, prev>>
  /\ UNCHANGED sumvars

\* ---------------------------------------------------------------- validate
\* lines 93-104: the store timestamps absent from the raw data, in dict order
validate_missing(tsa, tsr) ==
  Keys(SelectSeq(tsa, LAMBDA p : ~Has(tsr, p[1])))

entry_differs(annotated_entry, raw_entry) ==
  \/ annotated_entry.latitudeE7 # raw_entry.latitudeE7
  \/ annotated_entry.longitudeE7 # raw_entry.longitudeE7
  \/ annotated_entry.accuracy # raw_entry.accuracy
  \/ annotated_entry.timestamp # raw_entry.timestamp

\* lines 93-104: the store timestamps whose raw entry is different
validate_changed(tsa, tsr) ==
  Keys(SelectSeq(tsa, LAMBDA p : Has(tsr, p[1]) /\ entry_differs(p[2], Get(tsr, p[1]))))

RECURSIVE del_keys(_, _)
del_keys(d, ks) == IF ks = <<>> THEN d ELSE del_keys(Del(d, Head(ks)), Tail(ks))

RECURSIVE del_indices(_, _)
\* lines 139-140: del annotated['locations'][i] for each i in turn
del_indices(lst, is) ==
  IF is = <<>> THEN [raised |-> FALSE, lst |-> lst]
  ELSE IF DelAt(lst, Head(is)).raised THEN [raised |-> TRUE, lst |-> lst]
  ELSE del_indices(DelAt(lst, Head(is)).lst, Tail(is))

\* variant of validate_fatal: stops only when both classes are fatal
validate_fatal_both(missing, changed, a) ==
  /\ missing # <<>> /\ ~a.delete_missing
  /\ changed # <<>> /\ ~a.delete_changed

\* lines 116-117: the run must stop
validate_fatal(missing, changed, a) ==
  \/ missing # <<>> /\ ~a.delete_missing
  \/ changed # <<>> /\ ~a.delete_changed

\* variant of validate_keep: line 131 is left out
validate_keep_missing(tsa, missing, changed) == del_keys(tsa, changed)

\* variant of validate_keep: line 138 is left out
validate_keep_changed(tsa, missing, changed) == del_keys(tsa, missing)

\* lines 131 and 138: del ts_to_annotated[ts] for every removed timestamp
validate_keep(tsa, missing, changed) ==
  del_keys(del_keys(tsa, missing), changed)

\* lines 124-138: the indices collected, missing first, then changed
validate_indices(missing, changed, index) ==
  [i \in 1..Len(missing) |-> Get(index, missing[i])] \o
  [i \in 1..Len(changed) |-> Get(index, changed[i])]

validate ==
  /\ pc = "mapped"
  /\ LET missing == validate_missing(ts_to_annotated, ts_to_raw)
         changed == validate_changed(ts_to_annotated, ts_to_raw)
         indices == validate_indices(missing, changed, ts_to_annotated_index)
         deleted == del_indices(annotated.locations, SortedReverse(indices))
     IN IF validate_fatal(missing, changed, args)
        THEN /\ out' = [out EXCEPT
                          !.err_missing = IF args.delete_missing THEN <<>> ELSE missing,
                          !.err_changed = IF args.delete_changed THEN <<>> ELSE changed]
             /\ pc' = "exit"
             /\ UNCHANGED <<annotated, ts_to_annotated>>
        ELSE /\ out' = [out EXCEPT !.info_missing = missing,
                                   !.info_changed = changed,
                                   !.error = IF deleted.raised THEN "IndexError" ELSE @]
             /\ ts_to_annotated' = validate_keep(ts_to_annotated, missing, changed)
             /\ annotated' = [annotated EXCEPT !.locations = deleted.lst]
             /\ pc' = IF deleted.raised THEN "crash" ELSE "validated"
  /\ UNCHANGED <<file, rawfile, args, ts_to_raw, ts_to_annotated_index,
                 coords, states, sent, waited, file0, prev>>
  /\ UNCHANGED sumvars

\* -------------------------------------------------------------------- trim
\* "del ts_to_raw[ts]" raises KeyError when ts is not a key
trim_fails(tsa, tsr) == \E i \in 1..Len(tsa) : ~Has(tsr, tsa[i][1])

\* variant of trim_result: the last annotated timestamp is not removed
trim_result_short(tsa, tsr) ==
  del_keys(tsr, SubSeq(Keys(tsa), 1, Len(tsa) - 1))

\* variant of trim_result: nothing is removed
trim_result_none(tsa, tsr) == tsr

\* lines 149-150 when no key is absent
trim_result(tsa, tsr) == del_keys(tsr, Keys(tsa))

trim ==
  /\ pc = "validated"
  /\ IF trim_fails(ts_to_annotated, ts_to_raw)
     THEN /\ pc' = "crash"
          /\ out' = [out EXCEPT !.error = "KeyError"]
          /\ ts_to_raw' = ts_to_raw
     ELSE /\ pc' = "trimmed"
          /\ ts_to_raw' = trim_result(ts_to_annotated, ts_to_raw)
          /\ out' = out
  /\ UNCHANGED <<file, rawfile, args, annotated, ts_to_annotated,
                 ts_to_annotated_index, coords, states, sent, waited, file0, prev>>
  /\ UNCHANGED sumvars

\* ------------------------------------------------------- geocoding backends
\* What the geocoding data says about a coordinate: the country code and the
\* region name (admin1 of reverse_geocoder, address.state of Nominatim).
World(c) ==
  IF c[1] = LatAbroad THEN [cc |-> "CA", region |-> "Ontario"]
  ELSE IF c[2] = LonOdd THEN [cc |-> "US", region |-> "Unlisted"]
  ELSE IF c[1] % 2 = 1 THEN [cc |-> "US", region |-> "New York"]
  ELSE [cc |-> "US", region |-> "New Jersey"]

\* the entries of the two lookup tables that the modelled regions touch
admin_to_state == [r \in {"New York", "New Jersey"} |->
                     IF r = "New York" THEN "NY" ELSE "NJ"]
translate_state == [r \in {"New York", "New Jersey", "Puerto Rico"} |->
                     IF r = "New York" THEN "NY"
                     ELSE IF r = "New Jersey" THEN "NJ" ELSE "EX"]

RECURSIVE geocode_local_swallow(_, _)
\* variant of geocode_local: an unknown admin1 is taken as outside the US
geocode_local_swallow(cs, acc) ==
  IF cs = <<>> THEN [exit |-> FALSE, states |-> acc]
  ELSE LET res == World(Head(cs))
       IN IF res.cc # "US" \/ res.region \notin DOMAIN admin_to_state
          THEN geocode_local_swallow(Tail(cs), Append(acc, "EX"))
          ELSE geocode_local_swallow(Tail(cs),
                                     Append(acc, admin_to_state[res.region]))

RECURSIVE geocode_local(_, _)
\* lines 285-297: [exit |-> TRUE] stands for sys.exit(1) at line 294
geocode_local(cs, acc) ==
  IF cs = <<>> THEN [exit |-> FALSE, states |-> acc]
  ELSE LET res == World(Head(cs))
       IN IF res.cc # "US" THEN geocode_local(Tail(cs), Append(acc, "EX"))
          ELSE IF res.region \notin DOMAIN admin_to_state
               THEN [exit |-> TRUE, states |-> acc]
          ELSE geocode_local(Tail(cs), Append(acc, admin_to_state[res.region]))

\* ---------------------------------------------------------------- annotate
\* variant of coords_of: the limit is tested also when it is absent
coords_of_nolimit(tsr, limit) ==
  LET n == IF limit < 1 THEN 1 ELSE limit
  IN [i \in 1..(IF n < Len(tsr) THEN n ELSE Len(tsr)) |->
        <<tsr[i][2].latitudeE7, tsr[i][2].longitudeE7>>]

\* lines 176-181: the coordinates of the first entries of ts_to_raw; the loop
\* appends before it tests the limit, so a limit below 1 still yields one
coords_of(tsr, limit) ==
  LET n == IF limit = 0 THEN Len(tsr)
           ELSE IF limit < 1 THEN 1 ELSE limit
  IN [i \in 1..(IF n < Len(tsr) THEN n ELSE Len(tsr)) |->
        <<tsr[i][2].latitudeE7, tsr[i][2].longitudeE7>>]

\* variant of annotate_conflict: only a request for "osm" is compared
annotate_conflict_osm(ann, a) ==
  ann.geocoder # None /\ a.geocoder = "osm" /\ ann.geocoder # a.geocoder

\* lines 164-165: the command line asks for another service than the store's
annotate_conflict(ann, a) ==
  ann.geocoder # None /\ a.geocoder # None /\ ann.geocoder # a.geocoder

\* variant of active_geocoder: line 173 without the test of line 172
active_geocoder_always(ann, a) ==
  IF a.geocoder # None THEN a.geocoder ELSE "local"

\* lines 172-173: the service recorded in the store from now on
active_geocoder(ann, a) ==
  IF ann.geocoder # None THEN ann.geocoder
  ELSE IF a.geocoder # None THEN a.geocoder
  ELSE "local"

\* annotate() lines 162-188, up to the call of geocode()
annotate_begin ==
  /\ pc = "trimmed"
  /\ IF annotate_conflict(annotated, args)
     THEN /\ pc' = "exit"
          /\ out' = [out EXCEPT !.error = "different geocoding service"]
          /\ UNCHANGED <<annotated, coords>>
     ELSE /\ annotated' = [annotated EXCEPT
                             !.geocoder = active_geocoder(annotated, args)]
          /\ coords' = coords_of(ts_to_raw, args.limit)
          /\ IF coords' = <<>>
             THEN pc' = "annotated" /\ out' = out
             ELSE pc' = "geocode" /\ out' = [out EXCEPT !.annotating = Len(coords')]
  /\ UNCHANGED <<file, rawfile, args, ts_to_raw, ts_to_annotated,
                 ts_to_annotated_index, states, sent, waited, file0, prev>>
  /\ UNCHANGED sumvars

\* variant of email_missing: the test of line 362 is left out
email_missing_never(a) == FALSE

\* line 362: "not args.email"
email_missing(a) == a.email = None

\* geocode() lines 216-218 with geocode_local() whole and geocode_osm() up to
\* its loop (lines 362-385)
geocode ==
  /\ pc = "geocode"
  /\ IF annotated.geocoder = "local"
     THEN LET r == geocode_local(coords, <<>>)
          IN IF r.exit
             THEN /\ pc' = "exit"
                  /\ out' = [out EXCEPT !.error = "Unexpected admin1"]
                  /\ states' = states
             ELSE /\ pc' = "geocoded"
                  /\ states' = r.states
                  /\ out' = out
     ELSE IF annotated.geocoder = "osm"
     THEN IF email_missing(args)
          THEN /\ pc' = "exit"
               /\ out' = [out EXCEPT !.error = "Must specify email"]
               /\ states' = states
          ELSE /\ pc' = "osm_send"
               /\ states' = <<>>
               /\ out' = out
     ELSE /\ pc' = "geocoded"
          /\ states' = <<>>
          /\ out' = out
  /\ UNCHANGED <<file, rawfile, args, annotated, ts_to_raw, ts_to_annotated,
                 ts_to_annotated_index, coords, sent, waited, file0, prev>>
  /\ UNCHANGED sumvars

\* variant of after_reply: the next request follows without the wait
after_reply_nosleep(n, cs) == IF n < Len(cs) THEN "osm_send" ELSE "geocoded"

\* lines 432-439: after a resolved coordinate the loop body ends in
\* time.sleep(1), whether or not another coordinate follows
after_reply(n, cs) == "osm_sleep"

\* variant of on_interrupt: KeyboardInterrupt is not caught
on_interrupt_raise == "crash"

\* lines 442-446: KeyboardInterrupt leaves the loop and geocode_osm returns
on_interrupt == "geocoded"

\* how one requests.get() of geocode_osm can end
Replies == {"ok", "status", "not_json", "transport", "interrupt"}

\* geocode_osm() lines 387-430: one request and the handling of its reply
osm_request ==
  /\ pc = "osm_send"
  /\ sent' = sent + 1
  /\ waited' = FALSE
  /\ \E reply \in Replies :
       LET res == World(coords[sent + 1])
       IN CASE reply = "transport" ->
                 \* requests.get raises a RequestException: not caught
                 /\ pc' = "crash"
                 /\ out' = [out EXCEPT !.error = "RequestException"]
                 /\ states' = states
            [] reply = "interrupt" ->
                 /\ pc' = on_interrupt
                 /\ out' = [out EXCEPT !.error = "Interrupted from keyboard"]
                 /\ states' = states
            [] reply = "status" ->
                 /\ pc' = "geocoded"
                 /\ out' = [out EXCEPT !.error = "Response error"]
                 /\ states' = states
            [] reply = "not_json" ->
                 /\ pc' = "geocoded"
                 /\ out' = [out EXCEPT !.error = "Response not JSON"]
                 /\ states' = states
            [] reply = "ok" ->
                 IF res.cc # "US"
                 THEN /\ states' = Append(states, "EX")
                      /\ pc' = after_reply(sent + 1, coords)
                      /\ out' = out
                 ELSE IF res.region \notin DOMAIN translate_state
                 THEN /\ pc' = "geocoded"
                      /\ out' = [out EXCEPT !.error = "Unexpected state"]
                      /\ states' = states
                 ELSE /\ states' = Append(states, translate_state[res.region])
                      /\ pc' = after_reply(sent + 1, coords)
                      /\ out' = out
  /\ UNCHANGED <<file, rawfile, args, annotated, ts_to_raw, ts_to_annotated,
                 ts_to_annotated_index, coords, file0, prev>>
  /\ UNCHANGED sumvars

\* geocode_osm() lines 435-444: the one-second wait, which either completes
\* (next coordinate, or the end of the loop) or is cut by CTRL-C
osm_sleep ==
  /\ pc = "osm_sleep"
  /\ \/ /\ pc' = IF sent < Len(coords) THEN "osm_send" ELSE "geocoded"
        /\ waited' = TRUE
        /\ out' = out
     \/ /\ pc' = on_interrupt
        /\ waited' = FALSE
        /\ out' = [out EXCEPT !.error = "Interrupted from keyboard"]
  /\ UNCHANGED <<file, rawfile, args, annotated, ts_to_raw, ts_to_annotated,
                 ts_to_annotated_index, coords, states, sent, file0, prev>>
  /\ UNCHANGED sumvars

\* variant of zip_entries: the states are paired with the last entries
zip_entries_last(sts, tsr) ==
  LET k == IF Len(sts) < Len(tsr) THEN Len(sts) ELSE Len(tsr)
  IN [i \in 1..k |->
        [timestamp   |-> tsr[Len(tsr) - k + i][2].timestamp,
         latitudeE7  |-> tsr[Len(tsr) - k + i][2].latitudeE7,
         longitudeE7 |-> tsr[Len(tsr) - k + i][2].longitudeE7,
         accuracy    |-> tsr[Len(tsr) - k + i][2].accuracy,
         state       |-> sts[i]]]

\* lines 197-205: zip(states, ts_to_raw.values()) stops at the shorter one
zip_entries(sts, tsr) ==
  [i \in 1..(IF Len(sts) < Len(tsr) THEN Len(sts) ELSE Len(tsr)) |->
     [timestamp   |-> tsr[i][2].timestamp,
      latitudeE7  |-> tsr[i][2].latitudeE7,
      longitudeE7 |-> tsr[i][2].longitudeE7,
      accuracy    |-> tsr[i][2].accuracy,
      state       |-> sts[i]]]

\* variant of annotate_append: new entries are put in front
annotate_append_front(locations, new) == new \o locations

\* line 205: every new entry goes to the end of the list
annotate_append(locations, new) == locations \o new

\* annotate() lines 190-205, after geocode() has returned
annotate_end ==
  /\ pc = "geocoded"
  /\ out' = [out EXCEPT !.remaining =
               IF Len(states) < Len(ts_to_raw) THEN Len(ts_to_raw) - Len(states)
               ELSE 0]
  /\ annotated' = [annotated EXCEPT
                     !.locations = annotate_append(@, zip_entries(states, ts_to_raw))]
  /\ pc' = "annotated"
  /\ UNCHANGED <<file, rawfile, args, ts_to_raw, ts_to_annotated,
                 ts_to_annotated_index, coords, states, sent, waited, file0, prev>>
  /\ UNCHANGED sumvars

\* --------------------------------------------------------- write_json_file
write_json_file ==
  /\ pc = "annotated"
  /\ file' = [exists |-> TRUE, geocoder |-> annotated.geocoder,
              locations |-> annotated.locations]
  /\ pc' = "done"
  /\ UNCHANGED <<rawfile, args, annotated, ts_to_raw, ts_to_annotated,
                 ts_to_annotated_index, coords, states, sent, waited, out, file0, prev>>
  /\ UNCHANGED sumvars

\* A run that wrote the store is followed at once by a run on the same raw
\* export: the process ends and parse_args() of the next one parses any
\* command line.
run_again ==
  /\ pc = "done"
  /\ pc' = "read"
  /\ args' \in ArgSets
  /\ prev' = [wrote |-> TRUE,
              left |-> SubSeq(Keys(ts_to_raw), Len(states) + 1, Len(ts_to_raw))]
  /\ annotated' = EmptyStore
  /\ ts_to_raw' = <<>>
  /\ ts_to_annotated' = <<>>
  /\ ts_to_annotated_index' = <<>>
  /\ coords' = <<>>
  /\ states' = <<>>
  /\ sent' = 0
  /\ waited' = FALSE
  /\ out' = NoOut
  /\ file0' = file
  /\ UNCHANGED <<file, rawfile>>
  /\ UNCHANGED sumvars

\* The process of a run ends: nothing of it is left but the annotated file.
process_exit ==
  /\ Stopped
  /\ pc' = "idle"
  /\ rawfile' = NoRawFile
  /\ args' = NoArgs
  /\ annotated' = EmptyStore
  /\ ts_to_raw' = <<>>
  /\ ts_to_annotated' = <<>>
  /\ ts_to_annotated_index' = <<>>
  /\ coords' = <<>>
  /\ states' = <<>>
  /\ sent' = 0
  /\ waited' = FALSE
  /\ out' = NoOut
  /\ file0' = file
  /\ prev' = NoPrev
  /\ UNCHANGED file
  /\ UNCHANGED sumvars

Next ==
  \/ process_exit
  \/ run_again
  \/ parse_args
  \/ main_read
  \/ validate
  \/ trim
  \/ annotate_begin
  \/ geocode
  \/ osm_request
  \/ osm_sleep
  \/ annotate_end
  \/ write_json_file

Spec == Init /\ [][Next]_vars

\* ================================================ summarize() (visualize.py)
\* Times are minutes since an epoch day 0, 00:00 UTC, with the part below the
\* minute (seconds and microseconds) kept apart in sec.
MinutesPerDay == 1440
EasternOffset == 300      \* US/Eastern is UTC-5 (daylight time is not modelled)
LateEvening == 240        \* 04:00 UTC, which is 23:00 US/Eastern the day before

\* The timeline points scanned: the record's startTime, the point's
\* durationMinutesOffsetFromStartTime and its state. A record starts at 23:00
\* Eastern, on the minute or 30 s past it; its points lie at the start or
\* an hour later, which is on or just after the next midnight.
Points ==
  [startTime : [min : {d * MinutesPerDay + LateEvening : d \in 1..MaxDay},
                sec : {0, 30}],
   offset : {0, 60},
   state : {"NY", "NJ"}]

\* line 54: start.astimezone(eastern)
astimezone(t) == [min |-> t.min - EasternOffset, sec |-> t.sec]

\* lines 53-59: startEastern + timedelta(minutes=offset)
pointTime(tlrec) ==
  [min |-> astimezone(tlrec.startTime).min + tlrec.offset,
   sec |-> astimezone(tlrec.startTime).sec]

\* line 60: pointTime.date(), as a day number
date(t) == t.min \div MinutesPerDay

\* util.is_midnight: hour, minute, second and microsecond are all zero
is_midnight(time) ==
  /\ (time.min % MinutesPerDay) \div 60 = 0
  /\ time.min % 60 = 0
  /\ time.sec = 0

RECURSIVE fill_from(_, _, _)
\* lines 65-67: summary[d] = {} for d, d+1, ... below day
fill_from(sm, d, day) ==
  IF d >= day THEN sm ELSE fill_from(Put(sm, d, <<>>), d + 1, day)

\* variant of fill_gaps: the day before the point's day is not filled
fill_gaps_short(sm, ld, day) ==
  IF ld # NoDay /\ ld < day THEN fill_from(sm, ld + 1, day - 1) ELSE sm

\* lines 63-67
fill_gaps(sm, ld, day) ==
  IF ld # NoDay /\ ld < day THEN fill_from(sm, ld + 1, day) ELSE sm

\* lines 71-76
count_point(sm, day, state) ==
  LET sm1 == IF Has(sm, day) THEN sm ELSE Put(sm, day, <<>>)
      b == IF Has(Get(sm1, day), state) THEN Get(sm1, day)
           ELSE Put(Get(sm1, day), state, 0)
  IN Put(sm1, day, Put(b, state, Get(b, state) + 1))

\* line 84, "summary[day][state] += 1", raises KeyError when summary has no
\* key day or summary[day] has no key state
increment_fails(sm, day, state) ==
  ~Has(sm, day) \/ ~Has(Get(sm, day), state)

increment(sm, day, state) ==
  Put(sm, day, Put(Get(sm, day), state, Get(Get(sm, day), state) + 1))

\* One turn of the loop of lines 56-84, for the next point of the timeline
\* (the points of all records, in the order of the two nested loops).
summarize_point ==
  /\ spc = "scan"
  /\ Len(scanned) < MaxPoints
  /\ \E tlrec \in Points :
       LET day == date(pointTime(tlrec))
           sm == count_point(fill_gaps(summary, last_day, day), day, tlrec.state)
       IN /\ scanned' = Append(scanned, tlrec)
          /\ last_day' = day
          /\ IF is_midnight(pointTime(tlrec))
             THEN IF increment_fails(sm, day - 1, tlrec.state)
                  THEN summary' = sm /\ spc' = "KeyError"
                  ELSE summary' = increment(sm, day - 1, tlrec.state) /\ spc' = "scan"
             ELSE summary' = sm /\ spc' = "scan"
  /\ UNCHANGED pipevars

\* line 86: the timeline is exhausted
summarize_return ==
  /\ spc = "scan"
  /\ spc' = "returned"
  /\ UNCHANGED <<scanned, summary, last_day>>
  /\ UNCHANGED pipevars

SumInit ==
  /\ file = NoFile
  /\ rawfile = NoRawFile
  /\ args = NoArgs
  /\ pc = "idle"
  /\ annotated = EmptyStore
  /\ ts_to_raw = <<>>
  /\ ts_to_annotated = <<>>
  /\ ts_to_annotated_index = <<>>
  /\ coords = <<>>
  /\ states = <<>>
  /\ sent = 0
  /\ waited = FALSE
  /\ out = NoOut
  /\ file0 = NoFile
  /\ prev = NoPrev
  /\ spc = "scan"
  /\ scanned = <<>>
  /\ summary = <<>>
  /\ last_day = NoDay

SumNext ==
  \/ summarize_point
  \/ summarize_return

SpecSummarize == SumInit /\ [][SumNext]_vars

\* =================================================================== claims
KeyOf(e) == isoparse(e.timestamp)
TsOf(es) == [i \in 1..Len(es) |-> KeyOf(es[i])]
SameFields(a, b) ==
  /\ a.timestamp = b.timestamp
  /\ a.latitudeE7 = b.latitudeE7
  /\ a.longitudeE7 = b.longitudeE7
  /\ a.accuracy = b.accuracy

StateCodes == {"NY", "NJ", "EX"}

\* the entries of the store, as the run found it, that the raw export lacks
StoreMissing ==
  SelectSeq(file0.locations,
            LAMBDA e : \A r \in Range(rawfile.locations) : KeyOf(r) # KeyOf(e))

\* the entries of the store, as the run found it, that the raw export has
\* with another latitude, longitude, accuracy or timestamp string
StoreChanged ==
  SelectSeq(file0.locations,
            LAMBDA e : \E r \in Range(rawfile.locations) :
                          KeyOf(r) = KeyOf(e) /\ ~SameFields(e, r))

\* annotate() has built coords and the run went on from there
Submitted == pc \in {"geocode", "osm_send", "osm_sleep", "geocoded", "annotated", "done"}

\* C1 (as amended): when geocode() returns k results for n submitted
\* coordinates, k < n, the store gains exactly the first k pending points in
\* submission order, the i-th with the i-th state, no other pending point,
\* and the number reported as not annotated yet is the number of ALL pending
\* points minus k (n-k only when --limit cut nothing off).
C1_PositionalAlignment ==
  (pc = "annotated" /\ Len(states) < Len(coords)) =>
    LET k == Len(states)
        old == Len(file0.locations) - Len(out.info_missing) - Len(out.info_changed)
    IN /\ Len(annotated.locations) = old + k
       /\ \A i \in 1..k :
            /\ SameFields(annotated.locations[old + i], ts_to_raw[i][2])
            /\ annotated.locations[old + i].state = states[i]
            /\ coords[i] = <<ts_to_raw[i][2].latitudeE7, ts_to_raw[i][2].longitudeE7>>
       /\ \A i \in (k + 1)..Len(ts_to_raw) :
            \A j \in 1..Len(annotated.locations) :
               KeyOf(annotated.locations[j]) # ts_to_raw[i][1]
       /\ out.remaining = Len(ts_to_raw) - k

\* C1 as stated: the number reported as not annotated yet is n-k.
C1_Original ==
  (pc = "annotated" /\ Len(states) < Len(coords)) =>
    out.remaining = Len(coords) - Len(states)

C1_Witness ==
  pc = "annotated" /\ Len(states) >= 1 /\ Len(states) < Len(coords)

C3_MergeCompleteness ==
  (pc = "done" /\ args.limit = 0 /\ Len(states) = Len(coords)) =>
    /\ \A r \in Range(rawfile.locations) :
         /\ Cardinality({j \in 1..Len(file.locations) :
                           KeyOf(file.locations[j]) = KeyOf(r)}) = 1
         /\ \E j \in 1..Len(file.locations) :
              /\ SameFields(file.locations[j], r)
              /\ file.locations[j].state \in StateCodes
    /\ out.remaining = 0

C3_Witness ==
  /\ pc = "done" /\ args.limit = 0
  /\ Len(states) = Len(coords) /\ Len(coords) >= 2

\* C4 (as amended): a run on the same raw export, right after a run that
\* wrote the store AND left no entry un-annotated, leaves the persisted store
\* identical: same geocoder tag, same locations in the same order.
C4_Idempotence ==
  (Stopped /\ prev.wrote /\ prev.left = <<>>) => file = file0

\* C4 as stated: the same after any run that completed and wrote the store.
C4_Original == (pc = "done" /\ prev.wrote) => file = file0

C4_Witness ==
  pc = "done" /\ prev.wrote /\ prev.left = <<>> /\ file.locations # <<>>

\* C5: a run without --delete-missing and --delete-changed that reaches the
\* write step leaves the locations it found as an identical prefix of the
\* locations it writes.
C5_AppendOnly ==
  (pc = "done" /\ ~args.delete_missing /\ ~args.delete_changed) =>
    /\ Len(file0.locations) <= Len(file.locations)
    /\ SubSeq(file.locations, 1, Len(file0.locations)) = file0.locations

C5_Witness ==
  /\ pc = "done" /\ ~args.delete_missing /\ ~args.delete_changed
  /\ file0.locations # <<>>
  /\ Len(file.locations) > Len(file0.locations)

\* C6: a run that asks for another geocoder than the one the store records
\* never reaches geocoding nor the write step, sends no request and leaves
\* the persisted store as it was, repair flags and pending points or not;
\* and no run changes a geocoder tag that the store already has.
C6_TagImmutability ==
  /\ file0.geocoder # None => file.geocoder = file0.geocoder
  /\ (file0.geocoder # None /\ args.geocoder # None
        /\ args.geocoder # file0.geocoder) =>
       /\ pc \in {"read", "mapped", "validated", "trimmed", "exit", "crash"}
       /\ coords = <<>> /\ states = <<>> /\ sent = 0
       /\ file = file0

C6_Witness ==
  /\ pc = "exit" /\ out.error = "different geocoding service"
  /\ args.geocoder # file0.geocoder
  /\ out.info_changed # <<>>
  /\ ts_to_raw # <<>>

\* C7: when the store has a missing timestamp without --delete-missing or a
\* changed one without --delete-changed, validate() ends the run with
\* sys.exit(1) after listing every such timestamp under its class, having
\* deleted nothing (entries of the other class with its flag given
\* included); the persisted store is unchanged.
C7_DefaultPolicy ==
  LET miss == TsOf(StoreMissing)
      chg == TsOf(StoreChanged)
  IN (/\ file0.exists /\ rawfile.exists
      /\ pc \notin {"idle", "read", "mapped"}
      /\ \/ miss # <<>> /\ ~args.delete_missing
         \/ chg # <<>> /\ ~args.delete_changed) =>
       /\ pc = "exit"
       /\ out.err_missing = (IF args.delete_missing THEN <<>> ELSE miss)
       /\ out.err_changed = (IF args.delete_changed THEN <<>> ELSE chg)
       /\ out.info_missing = <<>> /\ out.info_changed = <<>>
       /\ annotated.locations = file0.locations
       /\ Keys(ts_to_annotated) = TsOf(file0.locations)
       /\ file = file0
       /\ sent = 0

C7_Witness ==
  /\ pc = "exit" /\ out.err_missing # <<>>
  /\ args.delete_changed /\ StoreChanged # <<>>

\* C8: with the delete flags given, validate() raises nothing and leaves the
\* locations list equal to the original one without exactly the entries at
\* missing and changed timestamps, the others in their original order, and
\* the timestamp map holds exactly the entries that remain.
C8_RepairPolicy ==
  /\ out.error # "IndexError"
  /\ pc = "validated" =>
       /\ annotated.locations =
            SelectSeq(file0.locations,
                      LAMBDA e : /\ KeyOf(e) \notin Range(TsOf(StoreMissing))
                                 /\ KeyOf(e) \notin Range(TsOf(StoreChanged)))
       /\ Keys(ts_to_annotated) = TsOf(annotated.locations)
       /\ Values(ts_to_annotated) = annotated.locations

C8_Witness ==
  /\ pc = "validated"
  /\ out.info_missing # <<>> /\ out.info_changed # <<>>

\* C9: after validate() has returned, trim() raises no KeyError, and the raw
\* working set it leaves is exactly the raw points, in export order, whose
\* timestamp has no entry in the store; with an empty store that is the
\* whole raw export.
C9_Trim ==
  /\ out.error # "KeyError"
  /\ pc = "trimmed" =>
       /\ Values(ts_to_raw) =
            SelectSeq(rawfile.locations,
                      LAMBDA r : \A e \in Range(annotated.locations) :
                                    KeyOf(e) # KeyOf(r))
       /\ Keys(ts_to_raw) = TsOf(Values(ts_to_raw))
       /\ annotated.locations = <<>> => Values(ts_to_raw) = rawfile.locations

C9_Witness ==
  /\ pc = "trimmed"
  /\ Len(ts_to_raw) >= 1 /\ Len(ts_to_raw) < Len(rawfile.locations)

\* C10: when the annotated file does not exist (and the raw export does),
\* the run takes the store as empty and ends by writing a new store, not in
\* an error.
C10_MissingStoreFile ==
  (Stopped /\ ~file0.exists /\ rawfile.exists) => pc = "done"

\* the coordinate is in the US, in a region that neither lookup table lists
Unlisted(c) ==
  /\ World(c).cc = "US"
  /\ World(c).region \notin (DOMAIN admin_to_state \cup DOMAIN translate_state)

\* the points of the store that validate() of this run kept
Kept == Len(file0.locations) - Len(out.info_missing) - Len(out.info_changed)

\* the store in memory is the kept points followed by the first k pending
\* points, the i-th with the i-th state, and holds no other pending point
MergedFirst(k) ==
  /\ Len(annotated.locations) = Kept + k
  /\ \A i \in 1..k :
       /\ SameFields(annotated.locations[Kept + i], ts_to_raw[i][2])
       /\ annotated.locations[Kept + i].state = states[i]
  /\ \A i \in (k + 1)..Len(ts_to_raw) :
       \A e \in Range(annotated.locations) : KeyOf(e) # ts_to_raw[i][1]

\* C11: however a request of geocode_osm ends (status not OK, body not JSON,
\* unrecognized state, transport failure, keyboard interrupt), geocode_osm
\* returns normally, and what it returns is a state code for each coordinate
\* before the failing one, in input order: a prefix no longer than coords.
C11_NeverLosesWork ==
  (sent > 0 /\ pc \notin {"osm_send", "osm_sleep"}) =>
    /\ pc \in {"geocoded", "annotated", "done"}
    /\ Len(states) <= Len(coords)
    /\ \A i \in 1..Len(states) : states[i] \in StateCodes

\* C12: a keyboard interrupt inside the loop of geocode_osm, after k
\* coordinates were resolved, does not end the run: the run appends exactly
\* the first k pending points to the store, reports the others as not
\* annotated yet, and writes that store.
C12_InterruptCommits ==
  out.error = "Interrupted from keyboard" =>
    /\ pc \in {"geocoded", "annotated", "done"}
    /\ Len(states) <= sent /\ sent <= Len(coords)
    /\ pc \in {"annotated", "done"} =>
         /\ MergedFirst(Len(states))
         /\ out.remaining = Len(ts_to_raw) - Len(states)
    /\ pc = "done" =>
         /\ file.exists
         /\ file.locations = annotated.locations

C12_Witness ==
  /\ pc = "done" /\ out.error = "Interrupted from keyboard"
  /\ Len(states) >= 1 /\ Len(states) < Len(ts_to_raw)

\* C13 (as amended): a region or state value that the lookup table lacks is
\* never recorded, as EX or as any other state. From the remote backend it
\* stops the geocoding of the run and the points resolved before it are
\* merged and written; from the local backend it ends the run with
\* sys.exit(1) and nothing of the run is merged or written.
C13_SchemaError ==
  /\ \A e \in Range(file.locations) \cup Range(annotated.locations) :
        ~Unlisted(<<e.latitudeE7, e.longitudeE7>>)
  /\ out.error = "Unexpected admin1" =>
       /\ pc = "exit"
       /\ \E j \in 1..Len(coords) : Unlisted(coords[j])
       /\ Len(annotated.locations) = Kept
       /\ file = file0
  /\ out.error = "Unexpected state" =>
       /\ pc \in {"geocoded", "annotated", "done"}
       /\ Len(states) < Len(coords)
       /\ Unlisted(coords[Len(states) + 1])
       /\ pc \in {"annotated", "done"} => MergedFirst(Len(states))
       /\ pc = "done" => file.locations = annotated.locations

\* C13 as stated: with either backend, the points of the run that come
\* before the one with the unrecognized value are in the store when the run
\* has ended.
C13_Original ==
  (Stopped /\ out.error \in {"Unexpected admin1", "Unexpected state"}) =>
    \A i \in 1..Len(coords) :
       (\A j \in 1..i : ~Unlisted(coords[j])) =>
          \E e \in Range(file.locations) : KeyOf(e) = ts_to_raw[i][1]

C13_Witness ==
  /\ pc = "done" /\ out.error = "Unexpected state"
  /\ Len(states) >= 1

\* C14 (as amended): a run whose active geocoder is osm, which has no email
\* and at least one pending point, ends with sys.exit(1), sends no request
\* and does not write the store.
C14_EmailRequired ==
  (/\ annotated.geocoder = "osm" /\ args.email = None
   /\ coords # <<>> /\ pc # "geocode") =>
    /\ pc = "exit"
    /\ out.error = "Must specify email"
    /\ sent = 0 /\ states = <<>>
    /\ file = file0

\* C14 as stated: the same with any number of pending points, zero included,
\* so that no run with osm as active geocoder and no email writes the store.
C14_Original ==
  (pc = "done" /\ annotated.geocoder = "osm") => args.email # None

C14_Witness ==
  /\ pc = "exit" /\ out.error = "Must specify email"
  /\ file0.geocoder = "osm" /\ args.geocoder = None

\* C15: when a limit L is given (a limit other than 0 is surely one given
\* on the command line), annotate() submits the coordinates of the first L
\* pending points, all of them when fewer than L are pending, and no more.
C15_Limit ==
  (Submitted /\ args.limit # 0) =>
    LET L == IF args.limit < 0 THEN 0 ELSE args.limit
        n == IF L < Len(ts_to_raw) THEN L ELSE Len(ts_to_raw)
    IN /\ Len(coords) = n
       /\ Len(states) <= n
       /\ \A i \in 1..Len(coords) :
            coords[i] = <<ts_to_raw[i][2].latitudeE7, ts_to_raw[i][2].longitudeE7>>

\* C16: geocode_osm dispatches a request after an earlier one only when a
\* one-second wait has completed since that one, and dispatches none once a
\* request has ended in a STOP or the loop was interrupted.
C16_RequestSpacing ==
  /\ (pc = "osm_send" /\ sent > 0) => waited
  /\ pc \in {"osm_send", "osm_sleep"} => out.error = None
  /\ sent <= Len(coords)

C16_Witness ==
  pc = "osm_sleep" /\ sent = 2 /\ Len(states) = 2

\* C18: no two locations of the store share a timestamp, after any sequence
\* of runs that starts from an empty or absent store.
C18_UniqueTimestamps ==
  \A i, j \in 1..Len(file.locations) :
     i # j => KeyOf(file.locations[i]) # KeyOf(file.locations[j])

C18_Witness ==
  /\ pc = "done"
  /\ Len(file0.locations) >= 1 /\ Len(file.locations) >= 2
  /\ out.info_changed # <<>>
  /\ Len(states) >= 1

\* ------------------------------------------------- claims about summarize()
DayOf(tlrec) == date(pointTime(tlrec))

\* the count of a state in the bucket of a day, 0 when either key is absent
Count(sm, day, state) ==
  IF Has(sm, day) /\ Has(Get(sm, day), state) THEN Get(Get(sm, day), state) ELSE 0

RECURSIVE SumCounts(_)
SumCounts(bucket) ==
  IF bucket = <<>> THEN 0 ELSE Head(bucket)[2] + SumCounts(Tail(bucket))

RECURSIVE Total(_)
\* the sum of all state counts over all buckets
Total(sm) == IF sm = <<>> THEN 0 ELSE SumCounts(Head(sm)[2]) + Total(Tail(sm))

Midnights == {i \in 1..Len(scanned) : is_midnight(pointTime(scanned[i]))}

\* C17: for a point at exactly midnight US/Eastern starting day D, the turn
\* of the loop completes and the point's state is counted in the bucket of
\* D and in the bucket of D-1, whatever the summary held before.
C17_MidnightDoubleCount ==
  (scanned # <<>> /\ is_midnight(pointTime(scanned[Len(scanned)]))) =>
    LET p == scanned[Len(scanned)]
    IN /\ spc # "KeyError"
       /\ Count(summary, DayOf(p), p.state) >= 1
       /\ Count(summary, DayOf(p) - 1, p.state) >= 1

\* C19: for two points scanned one after the other with dates d1 < d2,
\* every date strictly between d1 and d2 is a key of the summary, with an
\* empty bucket when no point falls on that date.
C19_GapFilling ==
  spc \in {"scan", "returned"} =>
    \A i \in 1..(Len(scanned) - 1) :
       \A d \in (DayOf(scanned[i]) + 1)..(DayOf(scanned[i + 1]) - 1) :
          /\ Has(summary, d)
          /\ (\A j \in 1..Len(scanned) : DayOf(scanned[j]) # d) =>
                Get(summary, d) = <<>>

C19_Witness ==
  /\ spc = "returned"
  /\ \E i \in 1..(Len(scanned) - 1) :
        DayOf(scanned[i + 1]) - DayOf(scanned[i]) >= 2

\* C20: the state counts of the returned summary add up to the number of
\* points scanned plus the number of them that lie exactly at midnight,
\* in whatever order of dates the points come.
C20_CountConservation ==
  spc = "returned" => Total(summary) = Len(scanned) + Cardinality(Midnights)

\* ------------------------------------------------- repair and re-annotation
\* the position of a timestamp among the pending raw entries, 0 when absent
PendingAt(ts) ==
  IF Has(ts_to_raw, ts) THEN CHOOSE i \in 1..Len(ts_to_raw) : ts_to_raw[i][1] = ts
  ELSE 0

\* the store points, in locs, that carry the timestamp ts
PointsAt(locs, ts) == {j \in 1..Len(locs) : KeyOf(locs[j]) = ts}

\* C21 (as amended): in a run with --delete-changed in which validate()
\* returns, a store point whose raw entry has other fields is removed from
\* the store and is pending in the same run; when the run writes the store,
\* the store has exactly one point for that timestamp, with the raw entry's
\* fields and the state geocoded in this run, if the backend resolved it,
\* and no point for that timestamp if it did not.
C21_RepairReannotate ==
  (args.delete_changed /\ (pc \in {"validated", "trimmed"} \/ Submitted)) =>
    \A e \in Range(StoreChanged) :
       LET ts == KeyOf(e)
           i == PendingAt(ts)
       IN /\ ts \in Range(out.info_changed)
          /\ pc = "validated" => PointsAt(annotated.locations, ts) = {}
          /\ pc # "validated" => i >= 1
          /\ pc = "done" =>
               IF i <= Len(states)
               THEN /\ Cardinality(PointsAt(file.locations, ts)) = 1
                    /\ \A j \in PointsAt(file.locations, ts) :
                         /\ SameFields(file.locations[j], ts_to_raw[i][2])
                         /\ ts_to_raw[i][2] \in Range(rawfile.locations)
                         /\ file.locations[j].state = states[i]
               ELSE PointsAt(file.locations, ts) = {}

\* C21 as stated: the same of every run with --delete-changed, however it
\* ends, so that no such run leaves the changed point in the store.
C21_Original ==
  (Stopped /\ args.delete_changed) =>
    \A e \in Range(StoreChanged) : e \notin Range(file.locations)

C21_Witness ==
  /\ pc = "done" /\ args.delete_changed
  /\ \E e \in Range(StoreChanged) :
        /\ PendingAt(KeyOf(e)) >= 1
        /\ PendingAt(KeyOf(e)) <= Len(states)
        /\ Len(file.locations) >= 2

====
